---- MODULE Spec2Model ----
(***************************************************************************)
(* Model of pi_server.py: a websocket server that sweeps a servo, reads an *)
(* HC-SR04 ultrasonic sensor by busy-waiting on its echo line, and sends   *)
(* one {"angle", "distance"} message per step to the connected peer.       *)
(*                                                                         *)
(* Each connection runs handler -> sweep_sensor as one asyncio coroutine.  *)
(* The event loop is single-threaded: `cur` is the coroutine that holds    *)
(* the thread (Nobody: the loop is idle).  A coroutine gives it up only    *)
(* at an await (websocket.send, asyncio.sleep); time.sleep and the two     *)
(* busy-wait loops of get_distance keep it.                                *)
(*                                                                         *)
(* Units: time is in microseconds since the falling edge of the trigger    *)
(* pulse, distances are in hundredths of a centimetre (the two decimals    *)
(* round() keeps), angles are in degrees.  The clock is taken to be        *)
(* monotone and floats are taken as exact rationals.                       *)
(***************************************************************************)
EXTENDS Integers, Sequences, FiniteSets

VARIABLES
    mainpc,       \* position of the module-level / __main__ code
    hOpen,        \* the GPIO chip handle h is open
    servoOpen,    \* the AngularServo device holds its pin
    servoAngle,   \* value last assigned to servo.angle
    trig,         \* level of the TRIG output line
    echo,         \* level of the ECHO input line (driven by the sensor)
    armed,        \* the sensor got a trigger and has not yet raised echo
    cur,          \* coroutine that holds the event-loop thread, Nobody if none
    pc,           \* per connection: position in handler / sweep_sensor
    angle,        \* per connection: local `angle` of sweep_sensor
    direction,    \* per connection: local `direction` of sweep_sensor
    pulse_start,  \* per connection: local of get_distance
    pulse_end,    \* per connection: local of get_distance
    dist,         \* per connection: local `dist` of sweep_sensor
    msg,          \* per connection: the data handed to websocket.send
    exc,          \* per connection: exception raised inside sweep_sensor
    left,         \* per connection: messages the peer still reads before it hangs up
    ops,          \* per connection: operations done in the current iteration (history)
    cmd,          \* per connection: angles it assigned to the servo this iteration (history)
    hist          \* per connection: angles of the last messages delivered (history)

vars == <<mainpc, hOpen, servoOpen, servoAngle, trig, echo, armed, cur,
          pc, angle, direction, pulse_start, pulse_end, dist, msg, exc, left,
          ops, cmd, hist>>

hw == <<hOpen, servoOpen, servoAngle, trig, echo, armed>>
locals == <<angle, direction, pulse_start, pulse_end, dist>>
ghosts == <<ops, cmd, hist>>

-----------------------------------------------------------------------------
\* Program constants.

\* step = 5 degrees per iteration
step == 5
\* AngularServo(min_angle=0, max_angle=180); also the literals of the clamp
MinAngle == 0
MaxAngle == 180
\* distance_cm = pulse_duration * 17150
SoundFactor == 17150

\* Bounds of the model.

\* a short interval between two clock reads, in microseconds
ShortUs == 4
\* a long interval between two clock reads: the 1 ms echo pulse
PulseUs == 1000
\* messages the short-lived peer reads before it hangs up
MaxMsgs == 2

\* the long-lived connection and the short-lived one
Viewer == "viewer"
Visitor == "visitor"
Conns == {Viewer, Visitor}
\* cur when no coroutine holds the thread
Nobody == "nobody"
\* values time.time() returns during one measurement
Times == {0, ShortUs, PulseUs}
\* a local that is not assigned yet; a peer that never hangs up by itself
Unset == 0 - 1
NoMsg == [none |-> TRUE]
Order == <<"set", "read", "send", "update", "sleep">>

\* positions between the servo.angle assignment and the send call
Section == {"trig_low", "trig_high", "trig_fall", "wait_high", "wait_low", "calc", "send"}
\* positions inside get_distance that touch the GPIO
GpioSteps == {"trig_low", "trig_high", "trig_fall", "wait_high", "wait_low"}
Live == {"top", "update", "sending", "sleeping"} \cup Section
InSection(c) == pc[c] \in Section

-----------------------------------------------------------------------------
\* Pure functions.

\* round(x, 2) for x = n / d hundredths: nearest integer, ties to even.
Round(n, d) ==
    LET q == n \div d
        r == n % d
    IN  IF 2 * r < d THEN q
        ELSE IF 2 * r > d THEN q + 1
        ELSE IF q % 2 = 0 THEN q ELSE q + 1

DistanceTruncated(dur) == (dur * SoundFactor * 100) \div 1000000

\* lines 42-46: pulse_duration (us) -> round(pulse_duration * 17150, 2) in cm/100
DistanceCm(dur) == Round(dur * SoundFactor * 100, 1000000)

StepAngleNoUpper(a, d) ==
    LET a1 == a + step * d
    IN  IF a1 <= MinAngle THEN <<MinAngle, 1>> ELSE <<a1, d>>

StepAngleStrict(a, d) ==
    LET a1 == a + step * d
    IN  IF a1 > MaxAngle THEN <<MaxAngle, -1>>
        ELSE IF a1 < MinAngle THEN <<MinAngle, 1>>
        ELSE <<a1, d>>

\* lines 67-73: the next <<angle, direction>>
StepAngle(a, d) ==
    LET a1 == a + step * d
    IN  IF a1 >= MaxAngle THEN <<MaxAngle, -1>>
        ELSE IF a1 <= MinAngle THEN <<MinAngle, 1>>
        ELSE <<a1, d>>

MessageSwapped(a, d) == [angle |-> d, distance |-> a]

\* line 63: data = {"angle": angle, "distance": dist}
Message(a, d) == [angle |-> a, distance |-> d]

StartAngleOfServo == servoAngle

\* line 51: angle = 0
StartAngle == MinAngle

HandlerNoCatch(e) == "raised"

HandlerCatchAll(e) == "returned"

\* lines 82-85: what handler does with an exception of sweep_sensor
HandlerOutcome(e) == IF e = "ConnectionClosed" THEN "returned" ELSE "raised"

\* how many messages the peer of c reads before it closes the connection
Quota(c) == IF c = Viewer THEN Unset ELSE MaxMsgs

\* the coroutine of c may run: it holds the thread, or the loop is idle and picks it
CanRun(c) == cur = c \/ cur = Nobody

\* the last three delivered angles
Keep(h, a) == IF Len(h) < 3 THEN Append(h, a) ELSE Append(Tail(h), a)

-----------------------------------------------------------------------------
Init ==
    /\ mainpc = "servo"
    /\ hOpen = FALSE
    /\ servoOpen = FALSE
    /\ servoAngle = 0
    /\ trig = 0
    /\ echo = 0
    /\ armed = FALSE
    /\ cur = Nobody
    /\ pc = [c \in Conns |-> "idle"]
    /\ angle = [c \in Conns |-> 0]
    /\ direction = [c \in Conns |-> 1]
    /\ pulse_start = [c \in Conns |-> Unset]
    /\ pulse_end = [c \in Conns |-> Unset]
    /\ dist = [c \in Conns |-> Unset]
    /\ msg = [c \in Conns |-> NoMsg]
    /\ exc = [c \in Conns |-> "none"]
    /\ left = [c \in Conns |-> 0]
    /\ ops = [c \in Conns |-> <<>>]
    /\ cmd = [c \in Conns |-> <<>>]
    /\ hist = [c \in Conns |-> <<>>]

-----------------------------------------------------------------------------
\* Module-level setup and the __main__ block.

conn == <<cur, pc, angle, direction, pulse_start, pulse_end, dist, msg, exc, left,
          ops, cmd, hist>>

\* Interpreter exit: gpiozero closes its devices from its atexit hook; nothing
\* in the program closes h there.
AtExit ==
    /\ mainpc' = "exited"
    /\ servoOpen' = FALSE

\* line 9: servo = AngularServo(14, ...)
MakeServo ==
    /\ mainpc = "servo"
    /\ \/ /\ mainpc' = "open"
          /\ servoOpen' = TRUE
          /\ servoAngle' = MinAngle
       \/ /\ AtExit
          /\ UNCHANGED servoAngle
    /\ UNCHANGED <<hOpen, trig, echo, armed, conn>>

\* line 15: h = GPIO.gpiochip_open(0)
OpenChip ==
    /\ mainpc = "open"
    /\ \/ /\ mainpc' = "claim_out"
          /\ hOpen' = TRUE
          /\ UNCHANGED servoOpen
       \/ /\ AtExit
          /\ UNCHANGED hOpen
    /\ UNCHANGED <<servoAngle, trig, echo, armed, conn>>

\* line 16: GPIO.gpio_claim_output(h, TRIG)
ClaimOutput ==
    /\ mainpc = "claim_out"
    /\ \/ /\ mainpc' = "claim_in"
          /\ UNCHANGED servoOpen
       \/ AtExit
    /\ UNCHANGED <<hOpen, servoAngle, trig, echo, armed, conn>>

\* line 17: GPIO.gpio_claim_input(h, ECHO)
ClaimInput ==
    /\ mainpc = "claim_in"
    /\ \/ /\ mainpc' = "run"
          /\ UNCHANGED servoOpen
       \/ AtExit
    /\ UNCHANGED <<hOpen, servoAngle, trig, echo, armed, conn>>

\* lines 96-97, 88-92: asyncio.run(main()); websockets.serve may fail to bind
RunMain ==
    /\ mainpc = "run"
    /\ \/ mainpc' = "serving"
       \/ mainpc' = "finally"
    /\ UNCHANGED <<hw, conn>>

\* The process is interrupted (KeyboardInterrupt): asyncio.run cancels every
\* task and the exception leaves asyncio.run into the finally block.
Stop ==
    /\ mainpc = "serving"
    /\ mainpc' = "finally"
    /\ cur' = Nobody
    /\ pc' = [c \in Conns |-> IF pc[c] \in Live THEN "cancelled" ELSE pc[c]]
    /\ pulse_start' = [c \in Conns |-> Unset]
    /\ pulse_end' = [c \in Conns |-> Unset]
    /\ dist' = [c \in Conns |-> Unset]
    /\ msg' = [c \in Conns |-> NoMsg]
    /\ angle' = [c \in Conns |-> 0]
    /\ direction' = [c \in Conns |-> 1]
    /\ ops' = [c \in Conns |-> <<>>]
    /\ cmd' = [c \in Conns |-> <<>>]
    /\ UNCHANGED <<hw, exc, left, hist>>

\* lines 98-100: finally: GPIO.gpiochip_close(h); then the interpreter exits
Finally ==
    /\ mainpc = "finally"
    /\ hOpen' = FALSE
    /\ AtExit
    /\ UNCHANGED <<servoAngle, trig, echo, armed, conn>>

-----------------------------------------------------------------------------
\* The HC-SR04: after a trigger pulse it raises echo, later it lowers it.

EchoRise ==
    /\ mainpc = "serving"
    /\ armed
    /\ echo = 0
    /\ echo' = 1
    /\ armed' = FALSE
    /\ UNCHANGED <<mainpc, hOpen, servoOpen, servoAngle, trig, conn>>

EchoFall ==
    /\ mainpc = "serving"
    /\ echo = 1
    /\ echo' = 0
    /\ UNCHANGED <<mainpc, hOpen, servoOpen, servoAngle, trig, armed, conn>>

-----------------------------------------------------------------------------
\* handler and sweep_sensor, one coroutine per connection.

\* An exception e leaves sweep_sensor in the coroutine of c: its frame and
\* the frame of get_distance are gone.
Raise(c, e) ==
    /\ exc' = [exc EXCEPT ![c] = e]
    /\ pc' = [pc EXCEPT ![c] = HandlerOutcome(e)]
    /\ cur' = Nobody
    /\ pulse_start' = [pulse_start EXCEPT ![c] = Unset]
    /\ pulse_end' = [pulse_end EXCEPT ![c] = Unset]
    /\ dist' = [dist EXCEPT ![c] = Unset]
    /\ msg' = [msg EXCEPT ![c] = NoMsg]
    /\ angle' = [angle EXCEPT ![c] = 0]
    /\ direction' = [direction EXCEPT ![c] = 1]
    /\ ops' = [ops EXCEPT ![c] = <<>>]
    /\ cmd' = [cmd EXCEPT ![c] = <<>>]

\* lines 79-83, 51-53: a peer connects; handler starts sweep_sensor
Connect(c) ==
    /\ mainpc = "serving"
    /\ cur = Nobody
    /\ pc[c] = "idle"
    /\ pc' = [pc EXCEPT ![c] = "top"]
    /\ angle' = [angle EXCEPT ![c] = StartAngle]
    /\ direction' = [direction EXCEPT ![c] = 1]
    /\ left' = [left EXCEPT ![c] = Quota(c)]
    /\ UNCHANGED <<mainpc, hw, cur, pulse_start, pulse_end, dist, msg, exc, ghosts>>

\* line 57: servo.angle = angle
ServoSet(c) ==
    /\ mainpc = "serving"
    /\ CanRun(c)
    /\ pc[c] = "top"
    /\ cur' = c
    /\ servoAngle' = angle[c]
    /\ pc' = [pc EXCEPT ![c] = "trig_low"]
    /\ ops' = [ops EXCEPT ![c] = Append(@, "set")]
    /\ cmd' = [cmd EXCEPT ![c] = Append(@, angle[c])]
    /\ UNCHANGED <<mainpc, hOpen, servoOpen, trig, echo, armed, locals, msg, exc, left, hist>>

\* line 57: the servo write raises
ServoFail(c) ==
    /\ mainpc = "serving"
    /\ CanRun(c)
    /\ pc[c] = "top"
    /\ Raise(c, "error")
    /\ UNCHANGED <<mainpc, hw, left, hist>>

\* lines 23-24: GPIO.gpio_write(h, TRIG, 0); time.sleep(0.05)
TriggerLowAwait(c) ==
    /\ mainpc = "serving"
    /\ CanRun(c)
    /\ pc[c] = "trig_low"
    /\ cur' = Nobody
    /\ trig' = 0
    /\ pc' = [pc EXCEPT ![c] = "trig_high"]
    /\ UNCHANGED <<mainpc, hOpen, servoOpen, servoAngle, echo, armed,
                   locals, msg, exc, left, ghosts>>

TriggerLow(c) ==
    /\ mainpc = "serving"
    /\ CanRun(c)
    /\ pc[c] = "trig_low"
    /\ cur' = c
    /\ trig' = 0
    /\ pc' = [pc EXCEPT ![c] = "trig_high"]
    /\ UNCHANGED <<mainpc, hOpen, servoOpen, servoAngle, echo, armed,
                   locals, msg, exc, left, ghosts>>

\* lines 27-28: GPIO.gpio_write(h, TRIG, 1); time.sleep(0.00001)
TriggerHigh(c) ==
    /\ mainpc = "serving"
    /\ CanRun(c)
    /\ pc[c] = "trig_high"
    /\ cur' = c
    /\ trig' = 1
    /\ pc' = [pc EXCEPT ![c] = "trig_fall"]
    /\ UNCHANGED <<mainpc, hOpen, servoOpen, servoAngle, echo, armed,
                   locals, msg, exc, left, ghosts>>

\* lines 29-32: GPIO.gpio_write(h, TRIG, 0); pulse_start = time.time()
TriggerFall(c) ==
    /\ mainpc = "serving"
    /\ CanRun(c)
    /\ pc[c] = "trig_fall"
    /\ cur' = c
    /\ trig' = 0
    /\ armed' = (echo = 0)
    /\ \E t \in Times : pulse_start' = [pulse_start EXCEPT ![c] = t]
    /\ pc' = [pc EXCEPT ![c] = "wait_high"]
    /\ UNCHANGED <<mainpc, hOpen, servoOpen, servoAngle, echo,
                   angle, direction, pulse_end, dist, msg, exc, left, ghosts>>

WaitHighTimeout(c) ==
    /\ mainpc = "serving"
    /\ CanRun(c)
    /\ pc[c] = "wait_high"
    /\ cur' = c
    /\ \E t \in Times :
          /\ t >= pulse_start[c]
          /\ IF echo = 0 /\ t < PulseUs
             THEN /\ pulse_start' = [pulse_start EXCEPT ![c] = t]
                  /\ UNCHANGED <<pulse_end, pc>>
             ELSE /\ pulse_end' = [pulse_end EXCEPT ![c] = t]
                  /\ pc' = [pc EXCEPT ![c] = "wait_low"]
                  /\ UNCHANGED pulse_start
    /\ UNCHANGED <<mainpc, hw, angle, direction, dist, msg, exc, left, ghosts>>

\* lines 33-37: while GPIO.gpio_read(h, ECHO) == 0: pulse_start = time.time()
\*              pulse_end = time.time()
WaitHigh(c) ==
    /\ mainpc = "serving"
    /\ CanRun(c)
    /\ pc[c] = "wait_high"
    /\ cur' = c
    /\ \E t \in Times :
          /\ t >= pulse_start[c]
          /\ IF echo = 0
             THEN /\ pulse_start' = [pulse_start EXCEPT ![c] = t]
                  /\ UNCHANGED <<pulse_end, pc>>
             ELSE /\ pulse_end' = [pulse_end EXCEPT ![c] = t]
                  /\ pc' = [pc EXCEPT ![c] = "wait_low"]
                  /\ UNCHANGED pulse_start
    /\ UNCHANGED <<mainpc, hw, angle, direction, dist, msg, exc, left, ghosts>>

\* lines 38-39: while GPIO.gpio_read(h, ECHO) == 1: pulse_end = time.time()
WaitLow(c) ==
    /\ mainpc = "serving"
    /\ CanRun(c)
    /\ pc[c] = "wait_low"
    /\ cur' = c
    /\ IF echo = 1
       THEN /\ \E t \in Times :
                  /\ t >= pulse_end[c]
                  /\ pulse_end' = [pulse_end EXCEPT ![c] = t]
            /\ UNCHANGED pc
       ELSE /\ pc' = [pc EXCEPT ![c] = "calc"]
            /\ UNCHANGED pulse_end
    /\ UNCHANGED <<mainpc, hw, angle, direction, pulse_start, dist, msg, exc, left, ghosts>>

\* lines 23-38: a GPIO call of get_distance raises
GpioFail(c) ==
    /\ mainpc = "serving"
    /\ CanRun(c)
    /\ pc[c] \in GpioSteps
    /\ Raise(c, "error")
    /\ UNCHANGED <<mainpc, hw, left, hist>>

\* lines 42-46, 60: dist = round((pulse_end - pulse_start) * 17150, 2)
Calc(c) ==
    /\ mainpc = "serving"
    /\ CanRun(c)
    /\ pc[c] = "calc"
    /\ cur' = c
    /\ dist' = [dist EXCEPT ![c] = DistanceCm(pulse_end[c] - pulse_start[c])]
    /\ pc' = [pc EXCEPT ![c] = "send"]
    /\ ops' = [ops EXCEPT ![c] = Append(@, "read")]
    /\ UNCHANGED <<mainpc, hw, angle, direction, pulse_start, pulse_end, msg, exc, left,
                   cmd, hist>>

\* lines 63-64: data = {...}; await websocket.send(json.dumps(data))
\* The send suspends the coroutine, or raises at once when the peer is gone.
SendCall(c) ==
    /\ mainpc = "serving"
    /\ CanRun(c)
    /\ pc[c] = "send"
    /\ \/ /\ msg' = [msg EXCEPT ![c] = Message(angle[c], dist[c])]
          /\ pc' = [pc EXCEPT ![c] = "sending"]
          /\ cur' = Nobody
          /\ ops' = [ops EXCEPT ![c] = Append(@, "send")]
          /\ UNCHANGED <<pulse_start, pulse_end, dist, exc, cmd, hist>>
          /\ UNCHANGED <<angle, direction>>
       \/ /\ Raise(c, "ConnectionClosed")
          /\ UNCHANGED hist
    /\ UNCHANGED <<mainpc, hw, left>>

\* line 64: the send completes; the message is delivered to the peer
SendDone(c) ==
    /\ mainpc = "serving"
    /\ cur = Nobody
    /\ pc[c] = "sending"
    /\ left[c] # 0
    /\ left' = [left EXCEPT ![c] = IF @ > 0 THEN @ - 1 ELSE @]
    /\ hist' = [hist EXCEPT ![c] = Keep(@, msg[c].angle)]
    /\ msg' = [msg EXCEPT ![c] = NoMsg]
    /\ pulse_start' = [pulse_start EXCEPT ![c] = Unset]
    /\ pulse_end' = [pulse_end EXCEPT ![c] = Unset]
    /\ dist' = [dist EXCEPT ![c] = Unset]
    /\ pc' = [pc EXCEPT ![c] = "update"]
    /\ UNCHANGED <<mainpc, hw, cur, angle, direction, exc, ops, cmd>>

\* line 64: the peer closes while the send is pending: ConnectionClosed
SendFail(c) ==
    /\ mainpc = "serving"
    /\ cur = Nobody
    /\ pc[c] = "sending"
    /\ Raise(c, "ConnectionClosed")
    /\ UNCHANGED <<mainpc, hw, left, hist>>

\* lines 67-76: adjust angle and direction; await asyncio.sleep(0.1)
Update(c) ==
    /\ mainpc = "serving"
    /\ CanRun(c)
    /\ pc[c] = "update"
    /\ angle' = [angle EXCEPT ![c] = StepAngle(angle[c], direction[c])[1]]
    /\ direction' = [direction EXCEPT ![c] = StepAngle(angle[c], direction[c])[2]]
    /\ pc' = [pc EXCEPT ![c] = "sleeping"]
    /\ cur' = Nobody
    /\ ops' = [ops EXCEPT ![c] = @ \o <<"update", "sleep">>]
    /\ UNCHANGED <<mainpc, hw, pulse_start, pulse_end, dist, msg, exc, left, cmd, hist>>

\* line 76, 55: the sleep is over; the next iteration of the loop is ready
Wake(c) ==
    /\ mainpc = "serving"
    /\ cur = Nobody
    /\ pc[c] = "sleeping"
    /\ pc' = [pc EXCEPT ![c] = "top"]
    /\ ops' = [ops EXCEPT ![c] = <<>>]
    /\ cmd' = [cmd EXCEPT ![c] = <<>>]
    /\ UNCHANGED <<mainpc, hw, cur, locals, msg, exc, left, hist>>

-----------------------------------------------------------------------------
Process ==
    \/ MakeServo
    \/ OpenChip
    \/ ClaimOutput
    \/ ClaimInput
    \/ RunMain
    \/ Stop
    \/ Finally
    \/ EchoRise
    \/ EchoFall

Handler(c) ==
    \/ Connect(c)
    \/ ServoSet(c)
    \/ ServoFail(c)
    \/ TriggerLow(c)
    \/ TriggerHigh(c)
    \/ TriggerFall(c)
    \/ WaitHigh(c)
    \/ WaitLow(c)
    \/ GpioFail(c)
    \/ Calc(c)
    \/ SendCall(c)
    \/ SendDone(c)
    \/ SendFail(c)
    \/ Update(c)
    \/ Wake(c)

\* One peer: the usage the program is written for.
Next == Process \/ Handler(Viewer)

Spec == Init /\ [][Next]_vars

\* Two peers at once: a long-lived one and one that hangs up after MaxMsgs messages.
NextMulti == Process \/ \E c \in Conns : Handler(c)

SpecMulti == Init /\ [][NextMulti]_vars

-----------------------------------------------------------------------------
\* Helpers of the properties.

Abs(x) == IF x < 0 THEN 0 - x ELSE x

IsPrefix(s, t) == Len(s) <= Len(t) /\ \A i \in 1..Len(s) : s[i] = t[i]

\* the angles c has emitted: those delivered, then the one handed to send
Emitted(c) == IF msg[c] = NoMsg THEN hist[c] ELSE Append(hist[c], msg[c].angle)

\* e is a stretch of a triangle wave over 0..180 with slope 5: neighbours
\* differ by exactly 5 and the slope changes sign only at 0 and at 180
Triangle(e) ==
    /\ \A i \in 1..Len(e) : e[i] \in 0..180
    /\ \A i \in 1..(Len(e) - 1) : Abs(e[i + 1] - e[i]) = 5
    /\ \A i \in 2..(Len(e) - 1) :
          (e[i + 1] - e[i] # e[i] - e[i - 1]) => e[i] \in {0, 180}

\* until the window of hist slides, what c emitted starts at its first
\* message: 0, then 5
FromZero(c) ==
    Len(hist[c]) < 3 =>
        /\ Len(Emitted(c)) >= 1 => Emitted(c)[1] = 0
        /\ Len(Emitted(c)) >= 2 => Emitted(c)[2] = 5

Waiting == {"wait_high", "wait_low"}

-----------------------------------------------------------------------------
\* C1: every value assigned to servo.angle by sweep_sensor, in any iteration,
\* is an integer between 0 and 180.
C1_AngleInRange ==
    /\ servoAngle \in 0..180
    /\ \A c \in Conns : \A i \in 1..Len(cmd[c]) : cmd[c][i] \in 0..180

\* the sweep reached the upper end and commanded it
C1_Witness == servoAngle = 180 /\ cmd[Viewer] = <<180>> /\ direction[Viewer] = -1

\* C2: the angles one connection emits form a triangle wave: from 0 up by 5
\* per iteration to 180, then down by 5 per iteration to 0, and again; the
\* direction reverses only at 0 and 180 and no angle is emitted twice in a row.
C2_TriangleWave == Triangle(Emitted(Viewer)) /\ FromZero(Viewer)

\* a full sweep up and down is done and the second one has started
C2_Witness == hist[Viewer] = <<5, 0, 5>> /\ direction[Viewer] = 1

\* C3: the distance get_distance returns is the measured pulse duration times
\* 17150 cm/s rounded to the nearest hundredth of a cm, whatever the angle,
\* the earlier readings or any other state; a pulse of 1 ms gives 17.15 cm.
C3_DistanceOfDuration ==
    \A c \in Conns :
        dist[c] # Unset =>
            LET dur == pulse_end[c] - pulse_start[c]
            IN  /\ Abs(200 * dist[c] - 343 * dur) <= 100
                /\ dur = 1000 => dist[c] = 1715

\* a 1 ms pulse measured away from angle 0, after earlier readings
C3_Witness ==
    /\ pulse_end[Viewer] - pulse_start[Viewer] = 1000
    /\ dist[Viewer] = 1715
    /\ angle[Viewer] = 90
    /\ Len(hist[Viewer]) = 3

\* C4: each message has exactly the keys "angle" and "distance"; its angle is
\* the one assigned to servo.angle in the same iteration and its distance the
\* one get_distance returned in the same iteration; an iteration runs in the
\* order set angle, read distance, send, update, sleep, with one message per
\* servo move.
C4_MessagePerMove ==
    \A c \in Conns :
        /\ IsPrefix(ops[c], Order)
        /\ Len(cmd[c]) = (IF ops[c] = <<>> THEN 0 ELSE 1)
        /\ msg[c] # NoMsg =>
              /\ DOMAIN msg[c] = {"angle", "distance"}
              /\ msg[c].angle \in 0..180
              /\ cmd[c] = <<msg[c].angle>>
              /\ dist[c] # Unset
              /\ msg[c].distance = dist[c]
              /\ IsPrefix(<<"set", "read", "send">>, ops[c])

\* a message with a non-zero angle and a non-zero distance is being sent
C4_Witness ==
    /\ pc[Viewer] = "sending"
    /\ msg[Viewer] = [angle |-> 180, distance |-> 1715]

\* C5: when the send raises ConnectionClosed, handler returns normally; after
\* that the connection moves no servo, reads no sensor and sends nothing, and
\* the hardware handles stay owned by the process until its shutdown closes them.
C5_DisconnectReturns ==
    [][\A c \in Conns :
          /\ exc'[c] = "ConnectionClosed" => pc'[c] = "returned"
          /\ pc[c] = "returned" =>
                /\ pc'[c] = "returned"
                /\ cur' # c
                /\ servoAngle' = servoAngle
                /\ trig' = trig
                /\ msg'[c] = NoMsg
                /\ hist'[c] = hist[c]
                /\ cmd'[c] = <<>>
          /\ (pc'[c] = "returned" /\ mainpc' = "serving") => (hOpen' /\ servoOpen')
          /\ (pc'[c] = "returned" /\ mainpc' = "exited") => (~hOpen' /\ ~servoOpen')
      ]_vars

\* the peer went away in the middle of the sweep and the handler returned
C5_Witness ==
    /\ pc[Viewer] = "returned"
    /\ exc[Viewer] = "ConnectionClosed"
    /\ hist[Viewer] = <<0, 5, 10>>
    /\ mainpc = "serving"
    /\ hOpen

\* C6: on every path on which the process ends, each hardware resource it
\* acquired (the chip handle h, the servo) has been released.
C6_ReleasedOnEveryPath == mainpc = "exited" => (~hOpen /\ ~servoOpen)

\* C7: get_distance returns only after the echo line was read high and then
\* read low; while the line stays low (or stays high) it keeps waiting, there
\* is no timeout, and meanwhile the connection sends nothing and notices no
\* disconnect.
C7_WaitsForEcho ==
    [][\A c \in Conns :
          /\ (pc[c] # "calc" /\ pc'[c] = "calc") => (pc[c] = "wait_low" /\ echo = 0)
          /\ (pc[c] # "wait_low" /\ pc'[c] = "wait_low") => (pc[c] = "wait_high" /\ echo = 1)
          /\ (pc[c] = "wait_high" /\ echo = 0) => pc'[c] \in {"wait_high", "raised", "cancelled"}
          /\ (pc[c] = "wait_low" /\ echo = 1) => pc'[c] \in {"wait_low", "raised", "cancelled"}
          /\ (pc[c] = "wait_low" /\ echo = 0 /\ pc'[c] = "wait_low") => pulse_end'[c] = pulse_end[c]
          /\ (pc[c] \in Waiting /\ pc'[c] \in Waiting) =>
                /\ msg'[c] = msg[c]
                /\ hist'[c] = hist[c]
                /\ exc'[c] = "none"
                /\ dist'[c] = Unset
      ]_vars

\* the echo pulse came and went unseen: the wait goes on although the clock
\* has reached the end of its range
C7_Witness ==
    /\ pc[Viewer] = "wait_high"
    /\ echo = 0
    /\ ~armed
    /\ pulse_start[Viewer] = PulseUs
    /\ hist[Viewer] = <<0>>

\* C8 as stated: a failure other than the peer closing the connection leaves
\* handler and is fatal to the process: once a handler has raised, the server
\* does nothing more for any connection.
C8_FatalToProcess ==
    [][(\E c \in Conns : pc[c] = "raised") =>
          \A d \in Conns : pc'[d] = pc[d] \/ pc'[d] = "cancelled"]_vars

\* C8 as amended: such a failure is not caught by handler and leaves it,
\* ending that connection's sweep only: the step on which it leaves handler
\* leaves the process serving, the handles open and every other connection
\* as it was.
C8_FailureEndsConnection ==
    [][\A c \in Conns :
          /\ exc'[c] = "error" => pc'[c] = "raised"
          /\ (pc[c] # "raised" /\ pc'[c] = "raised") =>
                /\ exc'[c] = "error"
                /\ mainpc' = "serving"
                /\ hOpen' /\ servoOpen'
                /\ \A d \in Conns \ {c} : pc'[d] = pc[d] /\ msg'[d] = msg[d]
      ]_vars

\* one connection has failed while the process serves the other one
C8_Witness ==
    /\ pc[Viewer] = "raised"
    /\ exc[Viewer] = "error"
    /\ mainpc = "serving"
    /\ pc[Visitor] = "sending"
    /\ hist[Visitor] = <<0>>

\* C9: with two connections open, a loop gives up control only at the send and
\* at the sleep (or by ending): from the servo.angle assignment to the send
\* call no step of another connection is taken, so two measurements never
\* overlap and the other connection is stalled meanwhile.
C9_NoInterleaving ==
    [][\A c \in Conns :
          /\ InSection(c)' => \A d \in Conns \ {c} : ~InSection(d)'
          /\ (InSection(c) /\ mainpc' = "serving") =>
                \A d \in Conns \ {c} :
                    /\ pc'[d] = pc[d]
                    /\ angle'[d] = angle[d]
                    /\ msg'[d] = msg[d]
                    /\ hist'[d] = hist[d]
                    /\ cmd'[d] = cmd[d]
          /\ (cur = c /\ cur' # c) =>
                pc'[c] \in {"sending", "sleeping", "returned", "raised", "cancelled"}
      ]_vars

\* one connection is in its busy-wait while the other one, whose sleep is
\* over, is ready to run and does not get the thread
C9_Witness ==
    /\ pc[Viewer] = "wait_low"
    /\ cur = Viewer
    /\ pc[Visitor] = "top"
    /\ hist[Visitor] = <<0>>

\* C10: angle and direction are local to a connection: a new connection
\* starts at 0 going forward wherever the servo stands, each connection's
\* messages carry the triangle wave whatever the other connection does, and
\* each angle a connection commands is the angle of its next message.
C10_SweepPerConnection ==
    \A c \in Conns :
        /\ (pc[c] = "top" /\ hist[c] = <<>>) => (angle[c] = 0 /\ direction[c] = 1)
        /\ Triangle(Emitted(c))
        /\ FromZero(c)
        /\ InSection(c) => cmd[c] = <<angle[c]>>
        /\ msg[c] # NoMsg => cmd[c] = <<msg[c].angle>>

\* the shared servo was commanded to 90 by one connection and next to 0 by a
\* new one: what the servo gets is not a triangle wave
C10_Witness ==
    /\ pc[Viewer] = "sleeping"
    /\ cmd[Viewer] = <<90>>
    /\ pc[Visitor] = "trig_low"
    /\ hist[Visitor] = <<>>
    /\ cmd[Visitor] = <<0>>
    /\ servoAngle = 0

====
